---- MODULE Spec2Model ----
(***************************************************************************)
(* Employee attendance system: the in-memory store (server/storage.ts) and *)
(* the request handlers (server/routes.ts): check-in and check-out, the    *)
(* read-only queries (history, summary, report, calendar, dashboard) and   *)
(* the routes that answer with a user.                                     *)
(*                                                                         *)
(* Encoding of the program's values:                                       *)
(*   - a calendar date "yyyy-MM-dd" is an integer day number; day % 7 is   *)
(*     Date.getDay() (0 = Sunday, 6 = Saturday); string order of the       *)
(*     canonical dates is the order of the day numbers;                    *)
(*   - a time of day "HH:mm:ss" is the tuple <<h, m, s>>; null is <<>>;    *)
(*   - totalHours, a decimal string, is <<n>> with n the value in          *)
(*     hundredths of an hour ("7.75" is <<775>>); null is <<>>;            *)
(*   - a randomUUID() is a fresh integer (the insertion index of the Map); *)
(*   - a Map is the sequence of its values in insertion order.             *)
(*   - a month "yyyy-MM" is an integer; the seed day is the last day of    *)
(*     month 1, a month of 31 days followed by one of 30;                  *)
(*   - undefined (no user, no record) is <<>>, a value that is present is  *)
(*     the one-element tuple of it.                                        *)
(***************************************************************************)
EXTENDS Integers, Sequences, FiniteSets, TLC

VARIABLES
    users,            \* MemStorage.users
    employeeCounter,  \* MemStorage.employeeCounter
    attendance,       \* MemStorage.attendance
    today,            \* the server clock's calendar day
    response,         \* the last HTTP response sent by a handler
    steps,            \* requests received and midnights passed so far
    inflight,         \* requests suspended at an await, per connection
    calc,             \* last evaluation of a pure classifier function
    query             \* last read-only query of the store and what it returned

vars == <<users, employeeCounter, attendance, today, response, steps, inflight,
          calc, query>>

-----------------------------------------------------------------------------
(* Bounds of the model *)

\* requests received and midnights passed in one run
MaxSteps == 3
\* last calendar day the clock reaches
MaxDay == 9
\* connections that can hold a request in flight
NumSlots == 2
\* days before construction that seedData fills (30 in the program)
SeedDaysBack == 1
\* calendar day on which the store is constructed (a Monday)
StartDay == 8

NoTime == <<>>
NoHours == <<>>
NoRecord == <<>>

Time(h, m, s) == <<h, m, s>>

\* times of day at which the handlers read the clock
Times ==
    { Time(9, 15, 0), Time(11, 0, 0), Time(12, 30, 0), Time(13, 15, 0),
      Time(17, 0, 0) }

-----------------------------------------------------------------------------
(* Status classifier: routes.ts *)

\* checkInTime.split(":").map(Number)
SplitTime(t) == <<t[1], t[2], t[3]>>

\* mutant: 09:30 itself classified as late
calculateStatusStrict(checkInTime) ==
    LET parts == SplitTime(checkInTime)
        checkInMinutes == parts[1] * 60 + parts[2]
    IN  IF checkInMinutes < 9 * 60 + 30 THEN "present"
        ELSE IF checkInMinutes <= 12 * 60 THEN "late"
        ELSE "half-day"

calculateStatus(checkInTime) ==
    LET parts == SplitTime(checkInTime)
        hours == parts[1]
        minutes == parts[2]
        checkInMinutes == hours * 60 + minutes
    IN  IF checkInMinutes <= 9 * 60 + 30 THEN "present"
        ELSE IF checkInMinutes <= 12 * 60 THEN "late"
        ELSE "half-day"

\* mutant: the hundredths cut off instead of rounded
toFixed2Truncating(diffMinutes) ==
    IF diffMinutes >= 0
        THEN (10 * diffMinutes) \div 6
        ELSE 0 - ((10 * (0 - diffMinutes)) \div 6)

\* Number.prototype.toFixed(2) of diffMinutes / 60, in hundredths: the nearest
\* hundredth.  diffMinutes * 100 / 60 has fractional part 0, 1/3 or 2/3, never
\* 1/2, so no tie arises; a negative value is formatted as "-" and the
\* rounding of its magnitude.
toFixed2(diffMinutes) ==
    IF diffMinutes >= 0
        THEN (10 * diffMinutes + 3) \div 6
        ELSE 0 - ((10 * (0 - diffMinutes) + 3) \div 6)

\* mutant: a negative duration is stored as zero
calculateTotalHoursClamped(checkInTime, checkOutTime) ==
    LET diffMinutes == (checkOutTime[1] * 60 + checkOutTime[2])
                         - (checkInTime[1] * 60 + checkInTime[2])
    IN  IF diffMinutes < 0 THEN <<0>> ELSE <<toFixed2(diffMinutes)>>

calculateTotalHours(checkInTime, checkOutTime) ==
    LET inParts == SplitTime(checkInTime)
        outParts == SplitTime(checkOutTime)
        inTotalMinutes == inParts[1] * 60 + inParts[2]
        outTotalMinutes == outParts[1] * 60 + outParts[2]
        diffMinutes == outTotalMinutes - inTotalMinutes
    IN  <<toFixed2(diffMinutes)>>

\* parseFloat(totalHours), in hundredths
parseFloat(totalHours) == totalHours[1]

-----------------------------------------------------------------------------
(* MemStorage: storage.ts *)

getAttendanceByUserAndDate(store, userId, date) ==
    LET hits == SelectSeq(store, LAMBDA record :
                    record.userId = userId /\ record.date = date)
    IN  IF hits = <<>> THEN NoRecord ELSE <<Head(hits)>>

createAttendance(store, insertAttendance, now) ==
    LET id == Len(store) + 1
        record == [ id           |-> id,
                    userId       |-> insertAttendance.userId,
                    date         |-> insertAttendance.date,
                    checkInTime  |-> insertAttendance.checkInTime,
                    checkOutTime |-> insertAttendance.checkOutTime,
                    status       |-> insertAttendance.status,
                    totalHours   |-> insertAttendance.totalHours,
                    createdAt    |-> now ]
    IN  Append(store, record)

\* { ...record, ...updates }
Merge(record, updates) ==
    [ f \in DOMAIN record |->
        IF f \in DOMAIN updates THEN updates[f] ELSE record[f] ]

\* mutant: the updated record is stored under a fresh id
updateAttendanceNewId(store, id, updates) ==
    [ i \in 1..Len(store) |->
        IF store[i].id = id
            THEN Merge(store[i], [ id |-> Len(store) + 1 ] @@ updates)
            ELSE store[i] ]

\* mutant: the update is applied to every record of the record's user
updateAttendanceByUser(store, id, updates) ==
    [ i \in 1..Len(store) |->
        IF \E j \in 1..Len(store) :
               store[j].id = id /\ store[j].userId = store[i].userId
            THEN Merge(store[i], updates)
            ELSE store[i] ]

updateAttendance(store, id, updates) ==
    [ i \in 1..Len(store) |->
        IF store[i].id = id THEN Merge(store[i], updates) ELSE store[i] ]

-----------------------------------------------------------------------------
(* MemStorage.seedData *)

IsWeekend(day) == day % 7 = 0 \/ day % 7 = 6

seedUsers ==
    << [ name |-> "John Smith", email |-> "john@company.com",
         role |-> "employee", department |-> "Engineering" ],
       [ name |-> "Jane Doe", email |-> "jane@company.com",
         role |-> "employee", department |-> "Product" ],
       [ name |-> "Sarah Manager", email |-> "manager@company.com",
         role |-> "manager", department |-> "Management" ] >>

SeededUsers ==
    [ i \in 1..Len(seedUsers) |->
        [ id         |-> i,
          name       |-> seedUsers[i].name,
          email      |-> seedUsers[i].email,
          password   |-> "password123",
          role       |-> seedUsers[i].role,
          employeeId |-> i,
          department |-> seedUsers[i].department,
          createdAt  |-> StartDay ] ]

\* userIds.slice(0, n): the ids of the seeded employees
employeeUserIds == SelectSeq([ i \in 1..Len(seedUsers) |-> i ],
                             LAMBDA i : seedUsers[i].role = "employee")

\* String(outHour + outMinute / 60 - (hour + minute / 60)).slice(0, 4): the
\* first four characters, "d.dd" below ten hours and "dd.d" from ten hours on
seedTotalHours(hour, minute, outHour, outMinute) ==
    LET diff == (outHour * 60 + outMinute) - (hour * 60 + minute)
    IN  IF diff >= 600 THEN <<(diff \div 6) * 10>> ELSE <<(diff * 5) \div 3>>

seedPresent(hour, minute, outHour, outMinute) ==
    [ status       |-> "present",
      checkInTime  |-> Time(hour, minute, 0),
      checkOutTime |-> Time(outHour, outMinute, 0),
      totalHours   |-> seedTotalHours(hour, minute, outHour, outMinute) ]

seedLate(hour, minute) ==
    [ status       |-> "late",
      checkInTime  |-> Time(hour, minute, 0),
      checkOutTime |-> Time(18, 0, 0),
      totalHours   |-> seedTotalHours(hour, minute, 18, 0) ]

seedHalfDay ==
    [ status       |-> "half-day",
      checkInTime  |-> Time(9, 0, 0),
      checkOutTime |-> Time(13, 0, 0),
      totalHours   |-> <<400>> ]

seedAbsent ==
    [ status       |-> "absent",
      checkInTime  |-> NoTime,
      checkOutTime |-> NoTime,
      totalHours   |-> NoHours ]

\* outcomes of the Math.random() draws of one seeded record
SeedVariants ==
    { seedPresent(9, 29, 18, 59), seedLate(11, 59), seedHalfDay, seedAbsent }

\* the weekdays from StartDay - SeedDaysBack to StartDay, oldest first
SeedDays ==
    SelectSeq([ i \in 1..(SeedDaysBack + 1) |-> StartDay - SeedDaysBack + i - 1 ],
              LAMBDA day : ~IsWeekend(day))

\* the (day, employee) pairs in the order seedData inserts their records
SeedSlots ==
    LET n == Len(employeeUserIds)
    IN  [ k \in 1..(Len(SeedDays) * n) |->
            [ date   |-> SeedDays[((k - 1) \div n) + 1],
              userId |-> employeeUserIds[((k - 1) % n) + 1] ] ]

SeedRecord(k, variant) ==
    [ id           |-> k,
      userId       |-> SeedSlots[k].userId,
      date         |-> SeedSlots[k].date,
      checkInTime  |-> variant.checkInTime,
      checkOutTime |-> variant.checkOutTime,
      status       |-> variant.status,
      totalHours   |-> variant.totalHours,
      createdAt    |-> StartDay ]

SeededStores ==
    { [ k \in 1..Len(SeedSlots) |-> SeedRecord(k, choice[k]) ] :
        choice \in [ 1..Len(SeedSlots) -> SeedVariants ] }

-----------------------------------------------------------------------------
(* Request handlers: routes.ts *)

UserIds == { users[i].id : i \in 1..Len(users) }

Slots == 1..NumSlots

NoResponse == [ op |-> "none", userId |-> 0, code |-> 0, message |-> "" ]

IdleRequest ==
    [ pc |-> "idle", userId |-> 0, date |-> 0, time |-> NoTime,
      existing |-> NoRecord, code |-> 0 ]

NoQuery == [ op |-> "none" ]

NoCalc == [ op |-> "none", checkInTime |-> NoTime, checkOutTime |-> NoTime,
            status |-> "", totalHours |-> NoHours ]

\* mutant: a record is created whatever the lookup found
checkinStoreAlwaysCreates(store, existing, userId, date, checkInTime, now) ==
    IF existing # NoRecord /\ existing[1].checkInTime # NoTime
        THEN store
        ELSE createAttendance(store,
                 [ userId       |-> userId,
                   date         |-> date,
                   checkInTime  |-> checkInTime,
                   checkOutTime |-> NoTime,
                   status       |-> calculateStatus(checkInTime),
                   totalHours   |-> NoHours ], now)

\* mutant: a record that already has a check-in time is written again
checkinStoreNoGuard(store, existing, userId, date, checkInTime, now) ==
    IF existing # NoRecord
        THEN updateAttendance(store, existing[1].id,
                 [ checkInTime |-> checkInTime,
                   status      |-> calculateStatus(checkInTime) ])
        ELSE createAttendance(store,
                 [ userId       |-> userId,
                   date         |-> date,
                   checkInTime  |-> checkInTime,
                   checkOutTime |-> NoTime,
                   status       |-> calculateStatus(checkInTime),
                   totalHours   |-> NoHours ], now)

\* mutant: the placeholder update writes the time into checkOutTime
checkinStoreWrongField(store, existing, userId, date, checkInTime, now) ==
    IF existing # NoRecord /\ existing[1].checkInTime # NoTime
        THEN store
        ELSE IF existing # NoRecord
            THEN updateAttendance(store, existing[1].id,
                     [ checkOutTime |-> checkInTime,
                       status       |-> calculateStatus(checkInTime) ])
            ELSE createAttendance(store,
                     [ userId       |-> userId,
                       date         |-> date,
                       checkInTime  |-> checkInTime,
                       checkOutTime |-> NoTime,
                       status       |-> calculateStatus(checkInTime),
                       totalHours   |-> NoHours ], now)

\* mutant: the placeholder update leaves the status as it was
checkinStoreKeepsStatus(store, existing, userId, date, checkInTime, now) ==
    IF existing # NoRecord /\ existing[1].checkInTime # NoTime
        THEN store
        ELSE IF existing # NoRecord
            THEN updateAttendance(store, existing[1].id,
                     [ checkInTime |-> checkInTime ])
            ELSE createAttendance(store,
                     [ userId       |-> userId,
                       date         |-> date,
                       checkInTime  |-> checkInTime,
                       checkOutTime |-> NoTime,
                       status       |-> calculateStatus(checkInTime),
                       totalHours   |-> NoHours ], now)

\* POST /api/attendance/checkin after the lookup: the store it leaves
checkinStore(store, existing, userId, date, checkInTime, now) ==
    IF existing # NoRecord /\ existing[1].checkInTime # NoTime
        THEN store
        ELSE LET status == calculateStatus(checkInTime)
             IN  IF existing # NoRecord
                     THEN updateAttendance(store, existing[1].id,
                              [ checkInTime |-> checkInTime, status |-> status ])
                     ELSE createAttendance(store,
                              [ userId       |-> userId,
                                date         |-> date,
                                checkInTime  |-> checkInTime,
                                checkOutTime |-> NoTime,
                                status       |-> status,
                                totalHours   |-> NoHours ], now)

\* POST /api/attendance/checkin: the response it sends
checkinResponse(existing, userId) ==
    IF existing # NoRecord /\ existing[1].checkInTime # NoTime
        THEN [ op |-> "checkin", userId |-> userId, code |-> 400,
               message |-> "Already checked in today" ]
        ELSE IF existing # NoRecord
            THEN [ op |-> "checkin", userId |-> userId, code |-> 200,
                   message |-> "" ]
            ELSE [ op |-> "checkin", userId |-> userId, code |-> 201,
                   message |-> "" ]

\* mutant: four hours exactly still count as a half day
checkoutStatusInclusive(existing, totalHours) ==
    IF parseFloat(totalHours) <= 400 THEN "half-day" ELSE existing.status

\* mutant: four hours or more make the record present
checkoutStatusRecomputed(existing, totalHours) ==
    IF parseFloat(totalHours) < 400 THEN "half-day" ELSE "present"

\* status written by a check-out
checkoutStatus(existing, totalHours) ==
    LET hoursWorked == parseFloat(totalHours)
    IN  IF hoursWorked < 400 THEN "half-day" ELSE existing.status

\* mutant: a placeholder record without check-in time is checked out
checkoutStoreNoCheckIn(store, existing, checkOutTime) ==
    IF existing = NoRecord
        THEN store
        ELSE IF existing[1].checkInTime = NoTime
            THEN updateAttendance(store, existing[1].id,
                     [ checkOutTime |-> checkOutTime ])
            ELSE IF existing[1].checkOutTime # NoTime
                THEN store
                ELSE LET totalHours ==
                             calculateTotalHours(existing[1].checkInTime, checkOutTime)
                     IN  updateAttendance(store, existing[1].id,
                             [ checkOutTime |-> checkOutTime,
                               totalHours   |-> totalHours,
                               status       |-> IF parseFloat(totalHours) < 400
                                                    THEN "half-day"
                                                    ELSE existing[1].status ])

\* mutant: a record that already has a check-out time is checked out again
checkoutStoreNoGuard(store, existing, checkOutTime) ==
    IF existing = NoRecord \/ existing[1].checkInTime = NoTime
        THEN store
        ELSE LET totalHours ==
                     calculateTotalHours(existing[1].checkInTime, checkOutTime)
             IN  updateAttendance(store, existing[1].id,
                     [ checkOutTime |-> checkOutTime,
                       totalHours   |-> totalHours,
                       status       |-> IF parseFloat(totalHours) < 400
                                            THEN "half-day"
                                            ELSE existing[1].status ])

\* POST /api/attendance/checkout after the lookup: the store it leaves
checkoutStore(store, existing, checkOutTime) ==
    IF existing = NoRecord \/ existing[1].checkInTime = NoTime
        THEN store
        ELSE IF existing[1].checkOutTime # NoTime
            THEN store
            ELSE LET totalHours ==
                         calculateTotalHours(existing[1].checkInTime, checkOutTime)
                 IN  updateAttendance(store, existing[1].id,
                         [ checkOutTime |-> checkOutTime,
                           totalHours   |-> totalHours,
                           status       |-> checkoutStatus(existing[1], totalHours) ])

\* POST /api/attendance/checkout: the response it sends
checkoutResponse(existing, userId) ==
    IF existing = NoRecord \/ existing[1].checkInTime = NoTime
        THEN [ op |-> "checkout", userId |-> userId, code |-> 400,
               message |-> "You haven't checked in today" ]
        ELSE IF existing[1].checkOutTime # NoTime
            THEN [ op |-> "checkout", userId |-> userId, code |-> 400,
                   message |-> "Already checked out today" ]
            ELSE [ op |-> "checkout", userId |-> userId, code |-> 200,
                   message |-> "" ]

\* A check-in request handled without interruption
CheckIn(userId, checkInTime) ==
    /\ steps < MaxSteps
    /\ LET existing == getAttendanceByUserAndDate(attendance, userId, today)
       IN  /\ attendance' = checkinStore(attendance, existing, userId, today,
                                         checkInTime, today)
           /\ response' = checkinResponse(existing, userId)
    /\ steps' = steps + 1
    /\ UNCHANGED <<users, employeeCounter, today, inflight, calc, query>>

\* A check-out request handled without interruption
CheckOut(userId, checkOutTime) ==
    /\ steps < MaxSteps
    /\ LET existing == getAttendanceByUserAndDate(attendance, userId, today)
       IN  /\ attendance' = checkoutStore(attendance, existing, checkOutTime)
           /\ response' = checkoutResponse(existing, userId)
    /\ steps' = steps + 1
    /\ UNCHANGED <<users, employeeCounter, today, inflight, calc, query>>

\* Midnight passes
AdvanceDay ==
    /\ today < MaxDay
    /\ steps < MaxSteps
    /\ today' = today + 1
    /\ steps' = steps + 1
    /\ UNCHANGED <<users, employeeCounter, attendance, response, inflight, calc, query>>

-----------------------------------------------------------------------------
(* The handlers as they run on the event loop: a handler is suspended at   *)
(* `await storage.getAttendanceByUserAndDate(...)` and resumed later; the  *)
(* steps of other requests can run in between.                             *)

\* checkin handler, lines 184-189: read the clock, look the record up, suspend
BeginCheckIn(p, userId, checkInTime) ==
    /\ steps < MaxSteps
    /\ inflight[p].pc \in {"idle", "done-checkin", "done-checkout"}
    /\ inflight' = [ inflight EXCEPT ![p] =
            [ pc       |-> "checkin",
              userId   |-> userId,
              date     |-> today,
              time     |-> checkInTime,
              existing |-> getAttendanceByUserAndDate(attendance, userId, today),
              code     |-> 0 ] ]
    /\ steps' = steps + 1
    /\ UNCHANGED <<users, employeeCounter, attendance, today, response, calc, query>>

\* checkin handler, lines 190-215: resume with the record found earlier
FinishCheckIn(p) ==
    /\ inflight[p].pc = "checkin"
    /\ LET req == inflight[p]
       IN  /\ attendance' = checkinStore(attendance, req.existing, req.userId,
                                         req.date, req.time, today)
           /\ response' = checkinResponse(req.existing, req.userId)
           /\ inflight' = [ inflight EXCEPT ![p] =
                   [ req EXCEPT !.pc = "done-checkin",
                                !.code = checkinResponse(req.existing, req.userId).code ] ]
    /\ UNCHANGED <<users, employeeCounter, today, steps, calc, query>>

\* checkout handler, lines 224-229: read the clock, look the record up, suspend
BeginCheckOut(p, userId, checkOutTime) ==
    /\ steps < MaxSteps
    /\ inflight[p].pc \in {"idle", "done-checkin", "done-checkout"}
    /\ inflight' = [ inflight EXCEPT ![p] =
            [ pc       |-> "checkout",
              userId   |-> userId,
              date     |-> today,
              time     |-> checkOutTime,
              existing |-> getAttendanceByUserAndDate(attendance, userId, today),
              code     |-> 0 ] ]
    /\ steps' = steps + 1
    /\ UNCHANGED <<users, employeeCounter, attendance, today, response, calc, query>>

\* checkout handler, lines 230-252: resume with the record found earlier
FinishCheckOut(p) ==
    /\ inflight[p].pc = "checkout"
    /\ LET req == inflight[p]
       IN  /\ attendance' = checkoutStore(attendance, req.existing, req.time)
           /\ response' = checkoutResponse(req.existing, req.userId)
           /\ inflight' = [ inflight EXCEPT ![p] =
                   [ req EXCEPT !.pc = "done-checkout",
                                !.code = checkoutResponse(req.existing, req.userId).code ] ]
    /\ UNCHANGED <<users, employeeCounter, today, steps, calc, query>>

-----------------------------------------------------------------------------
(* The classifier functions applied to arbitrary times of day *)

Hours == 0..23
Minutes == 0..59

\* every minute of the day, at its first, a middle and its last second
AllTimes == { Time(h, m, s) : h \in Hours, m \in Minutes, s \in {0, 30, 59} }

\* check-in times paired with every check-out time
CalcCheckInTimes ==
    { Time(0, 0, 0), Time(9, 0, 0), Time(9, 15, 0), Time(11, 0, 0),
      Time(12, 30, 59), Time(23, 59, 0) }

CalcCheckOutTimes == { Time(h, m, s) : h \in Hours, m \in Minutes, s \in {0, 59} }

CalcInput(checkInTime, checkOutTime) ==
    [ op           |-> "input",
      checkInTime  |-> checkInTime,
      checkOutTime |-> checkOutTime,
      status       |-> "",
      totalHours   |-> NoHours ]

CalcInputs ==
    { CalcInput(t, NoTime) : t \in AllTimes }
        \cup { CalcInput(tin, tout) :
                   tin \in CalcCheckInTimes, tout \in CalcCheckOutTimes }

CalcStatus ==
    /\ calc.op = "input"
    /\ calc' = [ calc EXCEPT !.op = "status",
                             !.status = calculateStatus(calc.checkInTime) ]
    /\ UNCHANGED <<users, employeeCounter, attendance, today, response, steps, inflight, query>>

CalcTotalHours ==
    /\ calc.op = "input"
    /\ calc.checkOutTime # NoTime
    /\ calc' = [ calc EXCEPT !.op = "hours",
                             !.totalHours = calculateTotalHours(calc.checkInTime,
                                                                calc.checkOutTime) ]
    /\ UNCHANGED <<users, employeeCounter, attendance, today, response, steps, inflight, query>>

-----------------------------------------------------------------------------
(* Calendar: Date and date-fns as the store's month queries use them.      *)
(* A month "yyyy-MM" is an integer; StartDay is the last day of month 1.   *)

Months == 0..3

\* days of a month (getDaysInMonth behind endOfMonth)
MonthLength(month) ==
    CASE month = 0 -> 28
      [] month = 1 -> 31
      [] month = 2 -> 30
      [] OTHER     -> 31

\* the day number of "yyyy-MM-01"
FirstDayOf(month) ==
    CASE month = 0 -> StartDay + 1 - MonthLength(1) - MonthLength(0)
      [] month = 1 -> StartDay + 1 - MonthLength(1)
      [] month = 2 -> StartDay + 1
      [] OTHER     -> StartDay + 1 + MonthLength(2)

\* format(day, "yyyy-MM")
MonthOf(day) ==
    CHOOSE month \in Months :
        FirstDayOf(month) <= day /\ day < FirstDayOf(month) + MonthLength(month)

\* hours east of UTC of the server's time zone
UtcOffsets == {-5, 0, 2}

\* new Date(month + "-01"): a date-only ISO string is read as midnight UTC;
\* the result is the local calendar day on which that instant falls
parseMonth(month, utcOffset) ==
    IF utcOffset < 0 THEN FirstDayOf(month) - 1 ELSE FirstDayOf(month)

\* date-fns startOfMonth / endOfMonth / eachDayOfInterval, in local time
startOfMonth(day) == FirstDayOf(MonthOf(day))

endOfMonth(day) == FirstDayOf(MonthOf(day)) + MonthLength(MonthOf(day)) - 1

eachDayOfInterval(start, end) == [ i \in 1..(end - start + 1) |-> start + i - 1 ]

-----------------------------------------------------------------------------
(* MemStorage: the read-only queries, and the report route's summary *)

NoUser == <<>>

getUser(directory, id) ==
    LET hits == SelectSeq(directory, LAMBDA user : user.id = id)
    IN  IF hits = <<>> THEN NoUser ELSE <<Head(hits)>>

\* mutant of removePassword: the user is handed out as stored
removePasswordKeepsAll(user) == user

\* const { password, ...rest } = user
removePassword(user) == [ f \in DOMAIN user \ {"password"} |-> user[f] ]

getAllEmployees(directory) ==
    LET employees == SelectSeq(directory, LAMBDA user : user.role = "employee")
    IN  [ i \in 1..Len(employees) |-> removePassword(employees[i]) ]

\* mutant of sortByDateDesc: ascending order
RECURSIVE sortByDateAsc(_)
sortByDateAsc(records) ==
    IF records = <<>>
        THEN <<>>
        ELSE LET sorted == sortByDateAsc(SubSeq(records, 1, Len(records) - 1))
                 last == records[Len(records)]
                 k == Cardinality({ i \in 1..Len(sorted) :
                                      sorted[i].date <= last.date })
             IN  SubSeq(sorted, 1, k) \o <<last>> \o SubSeq(sorted, k + 1, Len(sorted))

\* records.sort((a, b) => b.date.localeCompare(a.date)): Array.prototype.sort
\* is stable, so records of one date keep their insertion order
RECURSIVE sortByDateDesc(_)
sortByDateDesc(records) ==
    IF records = <<>>
        THEN <<>>
        ELSE LET sorted == sortByDateDesc(SubSeq(records, 1, Len(records) - 1))
                 last == records[Len(records)]
                 k == Cardinality({ i \in 1..Len(sorted) :
                                      sorted[i].date >= last.date })
             IN  SubSeq(sorted, 1, k) \o <<last>> \o SubSeq(sorted, k + 1, Len(sorted))

\* mutant of getUserAttendanceHistory: the end date is excluded
getUserAttendanceHistoryExclusive(store, userId, startDate, endDate) ==
    sortByDateDesc(SelectSeq(store, LAMBDA record :
        /\ record.userId = userId
        /\ record.date >= startDate
        /\ record.date < endDate))

getUserAttendanceHistory(store, userId, startDate, endDate) ==
    sortByDateDesc(SelectSeq(store, LAMBDA record :
        /\ record.userId = userId
        /\ record.date >= startDate
        /\ record.date <= endDate))

\* records.filter((r) => r.status === status).length
countStatus(records, status) ==
    Len(SelectSeq(records, LAMBDA r : r.status = status))

\* records.reduce((sum, r) => sum + (parseFloat(r.totalHours || "0") || 0), 0),
\* in hundredths of an hour
RECURSIVE sumHours(_)
sumHours(records) ==
    IF records = <<>>
        THEN 0
        ELSE sumHours(Tail(records))
             + (IF Head(records).totalHours = NoHours
                    THEN 0 ELSE parseFloat(Head(records).totalHours))

getUserMonthlySummary(store, userId, month, utcOffset) ==
    LET monthStart == startOfMonth(parseMonth(month, utcOffset))
        monthEnd == endOfMonth(monthStart)
        records == getUserAttendanceHistory(store, userId, monthStart, monthEnd)
    IN  [ presentDays |-> countStatus(records, "present"),
          absentDays  |-> countStatus(records, "absent"),
          lateDays    |-> countStatus(records, "late"),
          halfDays    |-> countStatus(records, "half-day"),
          totalHours  |-> sumHours(records) ]

\* { ...record, user: user ? removePassword(user) : undefined }
withUser(directory, record) ==
    LET user == getUser(directory, record.userId)
    IN  [ f \in DOMAIN record \cup {"user"} |->
            IF f = "user"
                THEN IF user # NoUser THEN <<removePassword(user[1])>> ELSE NoUser
                ELSE record[f] ]

\* mutant of joinUsers: an inner join, records of unknown users are left out
joinUsersKnownOnly(directory, records) ==
    LET known == SelectSeq(records, LAMBDA record :
                     getUser(directory, record.userId) # NoUser)
    IN  [ i \in 1..Len(known) |-> withUser(directory, known[i]) ]

\* records.map((record) => ({ ...record, user: ... }))
joinUsers(directory, records) ==
    [ i \in 1..Len(records) |-> withUser(directory, records[i]) ]

getAllAttendanceForDate(directory, store, date) ==
    joinUsers(directory, SelectSeq(store, LAMBDA record : record.date = date))

\* the employee argument of the report: absent, the sentinel "all", or an id
NoEmployee == [ kind |-> "none", id |-> 0 ]

AllEmployees == [ kind |-> "all", id |-> 0 ]

EmployeeId(id) == [ kind |-> "id", id |-> id ]

\* mutant of getAttendanceReport: the employee filter is not applied
getAttendanceReportUnfiltered(directory, store, startDate, endDate, employeeId) ==
    joinUsers(directory, sortByDateDesc(SelectSeq(store, LAMBDA record :
        record.date >= startDate /\ record.date <= endDate)))

getAttendanceReport(directory, store, startDate, endDate, employeeId) ==
    LET inRange == SelectSeq(store, LAMBDA record :
                       record.date >= startDate /\ record.date <= endDate)
        records == IF employeeId.kind = "id"
                       THEN SelectSeq(inRange, LAMBDA record :
                                record.userId = employeeId.id)
                       ELSE inRange
    IN  joinUsers(directory, sortByDateDesc(records))

\* GET /api/attendance/report: the summary computed from the returned records
reportSummary(records) ==
    [ totalRecords |-> Len(records),
      presentCount |-> countStatus(records, "present"),
      absentCount  |-> countStatus(records, "absent"),
      lateCount    |-> countStatus(records, "late"),
      halfDayCount |-> countStatus(records, "half-day"),
      totalHours   |-> sumHours(records) ]

calendarDay(directory, store, day) ==
    LET records == getAllAttendanceForDate(directory, store, day)
    IN  [ date    |-> day,
          present |-> countStatus(records, "present"),
          absent  |-> countStatus(records, "absent"),
          late    |-> countStatus(records, "late"),
          halfDay |-> countStatus(records, "half-day"),
          total   |-> Len(records),
          records |-> records ]

getCalendarData(directory, store, month, utcOffset) ==
    LET monthStart == startOfMonth(parseMonth(month, utcOffset))
        monthEnd == endOfMonth(monthStart)
        days == eachDayOfInterval(monthStart, monthEnd)
    IN  [ i \in 1..Len(days) |-> calendarDay(directory, store, days[i]) ]

\* mutant of trendDay: employees without a record are not counted as absent
trendDayRecordsOnly(directory, store, day) ==
    LET records == getAllAttendanceForDate(directory, store, day)
    IN  [ date    |-> day,
          present |-> countStatus(records, "present"),
          absent  |-> countStatus(records, "absent"),
          late    |-> countStatus(records, "late") ]

\* one entry of weeklyTrend
trendDay(directory, store, day) ==
    LET employees == getAllEmployees(directory)
        records == getAllAttendanceForDate(directory, store, day)
    IN  [ date    |-> day,
          present |-> countStatus(records, "present"),
          absent  |-> countStatus(records, "absent")
                        + (Len(employees) - Len(records)),
          late    |-> countStatus(records, "late") ]

\* for (let i = 6; i >= 0; i--) ... subDays(new Date(), i)
weeklyTrend(directory, store, now) ==
    [ k \in 1..7 |-> trendDay(directory, store, now - (7 - k)) ]

\* the keys of departmentMap, in insertion order
RECURSIVE departments(_)
departments(employees) ==
    IF employees = <<>>
        THEN <<>>
        ELSE LET rest == departments(SubSeq(employees, 1, Len(employees) - 1))
                 department == employees[Len(employees)].department
             IN  IF \E i \in 1..Len(rest) : rest[i] = department
                     THEN rest ELSE Append(rest, department)

departmentStats(directory, store, now) ==
    LET employees == getAllEmployees(directory)
        todayAttendance == getAllAttendanceForDate(directory, store, now)
        checkedInUserIds == { todayAttendance[i].userId : i \in 1..Len(todayAttendance) }
        ofDepartment(department) ==
            SelectSeq(todayAttendance, LAMBDA record :
                record.user # NoUser /\ record.user[1].department = department)
        missing(department) ==
            SelectSeq(employees, LAMBDA emp :
                emp.id \notin checkedInUserIds /\ emp.department = department)
        keys == departments(employees)
    IN  [ i \in 1..Len(keys) |->
            [ department |-> keys[i],
              present    |-> Len(SelectSeq(ofDepartment(keys[i]),
                                 LAMBDA record : record.status # "absent")),
              absent     |-> countStatus(ofDepartment(keys[i]), "absent")
                               + Len(missing(keys[i])) ] ]

\* format(new Date(), "yyyy-MM") is the month of today; subDays(new Date(), 7)
\* is the seventh day before today
getEmployeeDashboardStats(store, userId, now, utcOffset) ==
    [ todayStatus      |-> getAttendanceByUserAndDate(store, userId, now),
      monthlySummary   |-> getUserMonthlySummary(store, userId, MonthOf(now),
                                                 utcOffset),
      recentAttendance |-> getUserAttendanceHistory(store, userId, now - 7, now) ]

\* mutant of getManagerDashboardStats: absentEmployees also lists the
\* employees whose record of today has status absent
getManagerDashboardStatsAbsentListed(directory, store, now) ==
    LET employees == getAllEmployees(directory)
        todayAttendance == getAllAttendanceForDate(directory, store, now)
        checkedInUserIds ==
            { todayAttendance[i].userId :
                i \in { j \in 1..Len(todayAttendance) :
                          todayAttendance[j].status # "absent" } }
    IN  [ totalEmployees  |-> Len(employees),
          presentToday    |-> Len(SelectSeq(todayAttendance, LAMBDA r :
                                  r.status \in {"present", "late", "half-day"})),
          absentToday     |-> Len(employees) - Len(todayAttendance)
                                + countStatus(todayAttendance, "absent"),
          lateToday       |-> countStatus(todayAttendance, "late"),
          absentEmployees |-> SelectSeq(employees, LAMBDA emp :
                                  emp.id \notin checkedInUserIds),
          weeklyTrend     |-> weeklyTrend(directory, store, now),
          departmentStats |-> departmentStats(directory, store, now) ]

getManagerDashboardStats(directory, store, now) ==
    LET employees == getAllEmployees(directory)
        todayAttendance == getAllAttendanceForDate(directory, store, now)
        checkedInUserIds == { todayAttendance[i].userId : i \in 1..Len(todayAttendance) }
    IN  [ totalEmployees  |-> Len(employees),
          presentToday    |-> Len(SelectSeq(todayAttendance, LAMBDA r :
                                  r.status \in {"present", "late", "half-day"})),
          absentToday     |-> Len(employees) - Len(todayAttendance)
                                + countStatus(todayAttendance, "absent"),
          lateToday       |-> countStatus(todayAttendance, "late"),
          absentEmployees |-> SelectSeq(employees, LAMBDA emp :
                                  emp.id \notin checkedInUserIds),
          weeklyTrend     |-> weeklyTrend(directory, store, now),
          departmentStats |-> departmentStats(directory, store, now) ]

-----------------------------------------------------------------------------
(* Stores on which the queries are run: a seeded store followed by the     *)
(* first requests of one run of registrations, check-ins and check-outs    *)

getUserByEmail(directory, email) ==
    LET hits == SelectSeq(directory, LAMBDA user : user.email = email)
    IN  IF hits = <<>> THEN NoUser ELSE <<Head(hits)>>

createUser(directory, counter, insertUser, now) ==
    Append(directory,
        [ id         |-> Len(directory) + 1,
          name       |-> insertUser.name,
          email      |-> insertUser.email,
          password   |-> insertUser.password,
          role       |-> insertUser.role,
          employeeId |-> counter + 1,
          department |-> insertUser.department,
          createdAt  |-> now ])

\* bcrypt.hash(password, 10)
bcryptHash(password) == "$2b$" \o password

\* the store's three fields
World(directory, counter, store) ==
    [ users |-> directory, employeeCounter |-> counter, attendance |-> store ]

\* POST /api/auth/register: the store it leaves
registerWorld(world, data, now) ==
    IF getUserByEmail(world.users, data.email) # NoUser
        THEN world
        ELSE World(createUser(world.users, world.employeeCounter,
                       [ name       |-> data.name,
                         email      |-> data.email,
                         password   |-> bcryptHash(data.password),
                         role       |-> data.role,
                         department |-> data.department ], now),
                   world.employeeCounter + 1,
                   world.attendance)

\* a manager who registers in a department that also has employees
NewManager ==
    [ name |-> "Nina Lead", email |-> "nina@company.com", password |-> "secret12",
      role |-> "manager", department |-> "Engineering" ]

\* an employee who registers
NewEmployee ==
    [ name |-> "Omar New", email |-> "omar@company.com", password |-> "secret12",
      role |-> "employee", department |-> "Design" ]

\* a check-in or check-out request of a user at a time of a day
Request(op, userId, date, time) ==
    [ op |-> op, userId |-> userId, date |-> date, time |-> time,
      data |-> NewManager ]

\* a registration request received on a day
RegisterRequest(data, date) ==
    [ op |-> "register", userId |-> 0, date |-> date, time |-> NoTime,
      data |-> data ]

\* the store after one request
applyRequest(world, request) ==
    LET existing == getAttendanceByUserAndDate(world.attendance,
                                               request.userId, request.date)
    IN  CASE request.op = "register" ->
               registerWorld(world, request.data, request.date)
          [] request.op = "checkin" ->
               [ world EXCEPT !.attendance =
                   checkinStore(@, existing, request.userId, request.date,
                                request.time, request.date) ]
          [] request.op = "checkout" ->
               [ world EXCEPT !.attendance =
                   checkoutStore(@, existing, request.time) ]

RECURSIVE applyRequests(_, _)
applyRequests(world, requests) ==
    IF requests = <<>>
        THEN world
        ELSE applyRequests(applyRequest(world, Head(requests)), Tail(requests))

\* the run: the new manager and the new employee register; both managers
\* and the first employee use the clock on the seed day, the first employee
\* and the new manager on the day after
QueryRun ==
    << RegisterRequest(NewManager, StartDay),
       RegisterRequest(NewEmployee, StartDay),
       Request("checkin",  3, StartDay, Time(9, 15, 0)),
       Request("checkin",  1, StartDay, Time(12, 30, 0)),
       Request("checkin",  4, StartDay, Time(11, 0, 0)),
       Request("checkout", 3, StartDay, Time(17, 0, 0)),
       Request("checkin",  1, StartDay + 1, Time(9, 15, 0)),
       Request("checkout", 1, StartDay + 1, Time(12, 30, 0)),
       Request("checkin",  4, StartDay + 1, Time(9, 15, 0)) >>

\* the day of the last of the first n requests
RunDay(n) == IF n = 0 THEN StartDay ELSE QueryRun[n].date

QueryWorld(seed, n) ==
    applyRequests(World(SeededUsers, Len(seedUsers), seed), SubSeq(QueryRun, 1, n))

-----------------------------------------------------------------------------
(* The queries as requests: each records its arguments and what it returns *)

\* dates asked for: from the day before the seed day to the last day
QueryDays == (StartDay - 1)..MaxDay

\* months asked for
QueryMonths == {1, 2}

QueryUserIds == 1..(Len(users) + 1)

\* e-mail addresses typed into the login form
Emails == { users[i].email : i \in 1..Len(users) } \cup {"nobody@company.com"}

QueryEmployees ==
    {NoEmployee, AllEmployees} \cup { EmployeeId(id) : id \in QueryUserIds }

History(userId, startDate, endDate) ==
    /\ query.op = "none"
    /\ query' = [ op        |-> "history",
                  userId    |-> userId,
                  startDate |-> startDate,
                  endDate   |-> endDate,
                  result    |-> getUserAttendanceHistory(attendance, userId,
                                                        startDate, endDate) ]
    /\ UNCHANGED <<users, employeeCounter, attendance, today, response, steps,
                   inflight, calc>>

MonthlySummary(userId, month, utcOffset) ==
    /\ query.op = "none"
    /\ query' = [ op        |-> "summary",
                  userId    |-> userId,
                  month     |-> month,
                  utcOffset |-> utcOffset,
                  result    |-> getUserMonthlySummary(attendance, userId,
                                                     month, utcOffset) ]
    /\ UNCHANGED <<users, employeeCounter, attendance, today, response, steps,
                   inflight, calc>>

AllForDate(date) ==
    /\ query.op = "none"
    /\ query' = [ op     |-> "date",
                  date   |-> date,
                  result |-> getAllAttendanceForDate(users, attendance, date) ]
    /\ UNCHANGED <<users, employeeCounter, attendance, today, response, steps,
                   inflight, calc>>

\* GET /api/attendance/report with both dates given
Report(startDate, endDate, employee) ==
    /\ query.op = "none"
    /\ LET records == getAttendanceReport(users, attendance, startDate,
                                          endDate, employee)
       IN  query' = [ op        |-> "report",
                      startDate |-> startDate,
                      endDate   |-> endDate,
                      employee  |-> employee,
                      code      |-> 200,
                      result    |-> records,
                      summary   |-> reportSummary(records) ]
    /\ UNCHANGED <<users, employeeCounter, attendance, today, response, steps,
                   inflight, calc>>

\* GET /api/attendance/report without startDate, without endDate or without
\* both: if (!startDate || !endDate) return res.status(400)
ReportMissingDate(missing) ==
    /\ query.op = "none"
    /\ query' = [ op      |-> "report-rejected",
                  missing |-> missing,
                  code    |-> 400,
                  message |-> "Start date and end date are required" ]
    /\ UNCHANGED <<users, employeeCounter, attendance, today, response, steps,
                   inflight, calc>>

Calendar(month, utcOffset) ==
    /\ query.op = "none"
    /\ query' = [ op        |-> "calendar",
                  month     |-> month,
                  utcOffset |-> utcOffset,
                  result    |-> getCalendarData(users, attendance, month,
                                               utcOffset) ]
    /\ UNCHANGED <<users, employeeCounter, attendance, today, response, steps,
                   inflight, calc>>

ManagerDashboard ==
    /\ query.op = "none"
    /\ query' = [ op     |-> "dashboard",
                  result |-> getManagerDashboardStats(users, attendance, today) ]
    /\ UNCHANGED <<users, employeeCounter, attendance, today, response, steps,
                   inflight, calc>>

\* GET /api/dashboard/employee for a session of userId
EmployeeDashboard(userId, utcOffset) ==
    /\ query.op = "none"
    /\ query' = [ op        |-> "employee-dashboard",
                  userId    |-> userId,
                  utcOffset |-> utcOffset,
                  result    |-> getEmployeeDashboardStats(attendance, userId,
                                                         today, utcOffset) ]
    /\ UNCHANGED <<users, employeeCounter, attendance, today, response, steps,
                   inflight, calc>>

\* GET /api/employees
Employees ==
    /\ query.op = "none"
    /\ query' = [ op |-> "employees", result |-> getAllEmployees(users) ]
    /\ UNCHANGED <<users, employeeCounter, attendance, today, response, steps,
                   inflight, calc>>

\* the body and status of a response that carries a user, and the userId the
\* handler leaves in the session (0: the session is not written)
UserResponse(op, code, message, user, sessionUserId) ==
    [ op |-> op, code |-> code, message |-> message, user |-> user,
      sessionUserId |-> sessionUserId ]

\* GET /api/auth/me for a session of userId
Me(userId) ==
    /\ query.op = "none"
    /\ LET user == getUser(users, userId)
       IN  query' = IF user = NoUser
                        THEN UserResponse("me", 404, "User not found", NoUser, 0)
                        ELSE UserResponse("me", 200, "",
                                 <<removePassword(user[1])>>, 0)
    /\ UNCHANGED <<users, employeeCounter, attendance, today, response, steps,
                   inflight, calc>>

\* passwords typed by clients
Passwords == {"password123", "secret12"}

\* user.password.startsWith("$2b$")
IsBcryptHash(stored) == \E password \in Passwords : stored = bcryptHash(password)

\* bcrypt.compare(password, hash)
bcryptCompare(password, hash) == hash = bcryptHash(password)

\* POST /api/auth/login
Login(email, password) ==
    /\ query.op = "none"
    /\ LET user == getUserByEmail(users, email)
           isValidPassword ==
               IF IsBcryptHash(user[1].password)
                   THEN bcryptCompare(password, user[1].password)
                   ELSE user[1].password = password
       IN  query' = IF user = NoUser \/ ~isValidPassword
                        THEN UserResponse("login", 401,
                                 "Invalid email or password", NoUser, 0)
                        ELSE UserResponse("login", 200, "",
                                 <<removePassword(user[1])>>, user[1].id)
    /\ UNCHANGED <<users, employeeCounter, attendance, today, response, steps,
                   inflight, calc>>

\* registration forms: two new users and one with the e-mail of a seeded user
RegisterData ==
    { NewManager, NewEmployee,
      [ NewEmployee EXCEPT !.email = seedUsers[1].email ] }

\* POST /api/auth/register
Register(data) ==
    /\ query.op = "none"
    /\ LET world == registerWorld(World(users, employeeCounter, attendance),
                                  data, today)
           user == world.users[Len(world.users)]
       IN  /\ users' = world.users
           /\ employeeCounter' = world.employeeCounter
           /\ query' = IF getUserByEmail(users, data.email) # NoUser
                           THEN UserResponse("register", 400,
                                    "Email already registered", NoUser, 0)
                           ELSE UserResponse("register", 201, "",
                                    <<removePassword(user)>>, user.id)
    /\ UNCHANGED <<attendance, today, response, steps, inflight, calc>>

-----------------------------------------------------------------------------
(* The register handler as it runs on the event loop: it is suspended at   *)
(* `await storage.getUserByEmail(email)` and at `await bcrypt.hash(...)`,  *)
(* and the steps of other registrations can run in between.                *)

RegisterResponse(userId, code, message) ==
    [ op |-> "register", userId |-> userId, code |-> code, message |-> message ]

\* register handler, lines 82-95: parse the body, look the e-mail up, and
\* answer 400 or go on to hash the password
BeginRegister(p, data) ==
    /\ steps < MaxSteps
    /\ inflight[p].pc \in {"idle", "done-register"}
    /\ LET existingUser == getUserByEmail(users, data.email)
       IN  IF existingUser # NoUser
               THEN /\ inflight' = [ inflight EXCEPT ![p] =
                           [ pc |-> "done-register", data |-> data,
                             hashedPassword |-> "", code |-> 400 ] ]
                    /\ response' = RegisterResponse(0, 400,
                                        "Email already registered")
               ELSE /\ inflight' = [ inflight EXCEPT ![p] =
                           [ pc |-> "register-hash", data |-> data,
                             hashedPassword |-> "", code |-> 0 ] ]
                    /\ UNCHANGED response
    /\ steps' = steps + 1
    /\ UNCHANGED <<users, employeeCounter, attendance, today, calc, query>>

\* register handler, line 97: bcrypt.hash resolves
HashRegister(p) ==
    /\ inflight[p].pc = "register-hash"
    /\ inflight' = [ inflight EXCEPT ![p] =
            [ inflight[p] EXCEPT !.pc = "register-create",
                                 !.hashedPassword = bcryptHash(inflight[p].data.password) ] ]
    /\ UNCHANGED <<users, employeeCounter, attendance, today, response, steps,
                   calc, query>>

\* register handler, lines 99-113: create the user and answer 201
FinishRegister(p) ==
    /\ inflight[p].pc = "register-create"
    /\ LET req == inflight[p]
       IN  /\ users' = createUser(users, employeeCounter,
                           [ name       |-> req.data.name,
                             email      |-> req.data.email,
                             password   |-> req.hashedPassword,
                             role       |-> req.data.role,
                             department |-> req.data.department ], today)
           /\ employeeCounter' = employeeCounter + 1
           /\ response' = RegisterResponse(Len(users) + 1, 201, "")
           /\ inflight' = [ inflight EXCEPT ![p] =
                   [ req EXCEPT !.pc = "done-register", !.code = 201 ] ]
    /\ UNCHANGED <<attendance, today, steps, calc, query>>

-----------------------------------------------------------------------------
(* Specifications *)

Init ==
    /\ users = SeededUsers
    /\ employeeCounter = Len(seedUsers)
    /\ attendance \in SeededStores
    /\ today = StartDay
    /\ response = NoResponse
    /\ steps = 0
    /\ inflight = [ p \in Slots |-> IdleRequest ]
    /\ calc = NoCalc
    /\ query = NoQuery

\* requests handled one after the other
Next ==
    \/ \E userId \in UserIds, t \in Times : CheckIn(userId, t)
    \/ \E userId \in UserIds, t \in Times : CheckOut(userId, t)
    \/ AdvanceDay

Spec == Init /\ [][Next]_vars

\* one outcome of the seed: a placeholder (absent) record for the first
\* employee of each seeded day and complete records for the others
ConcSeedStore ==
    [ k \in 1..Len(SeedSlots) |->
        SeedRecord(k, IF SeedSlots[k].userId = Head(employeeUserIds)
                          THEN seedAbsent ELSE seedPresent(9, 29, 18, 59)) ]

InitConc ==
    /\ users = SeededUsers
    /\ employeeCounter = Len(seedUsers)
    /\ attendance = ConcSeedStore
    /\ today = StartDay
    /\ response = NoResponse
    /\ steps = 0
    /\ inflight = [ p \in Slots |-> IdleRequest ]
    /\ calc = NoCalc
    /\ query = NoQuery

\* requests whose store accesses interleave
NextConc ==
    \/ \E p \in Slots, userId \in UserIds, t \in Times : BeginCheckIn(p, userId, t)
    \/ \E p \in Slots : FinishCheckIn(p)
    \/ \E p \in Slots, userId \in UserIds, t \in Times : BeginCheckOut(p, userId, t)
    \/ \E p \in Slots : FinishCheckOut(p)

SpecConc == InitConc /\ [][NextConc]_vars

\* the classifier functions applied once to inputs drawn at the start
InitCalc ==
    /\ users = SeededUsers
    /\ employeeCounter = Len(seedUsers)
    /\ attendance = ConcSeedStore
    /\ today = StartDay
    /\ response = NoResponse
    /\ steps = 0
    /\ inflight = [ p \in Slots |-> IdleRequest ]
    /\ calc \in CalcInputs
    /\ query = NoQuery

NextCalc ==
    \/ CalcStatus
    \/ CalcTotalHours

SpecCalc == InitCalc /\ [][NextCalc]_vars

\* the queries, each run once on a store that the seed and the first
\* requests of QueryRun have produced, on the day of the last request or later
InitQuery ==
    /\ \E seed \in SeededStores, n \in 0..Len(QueryRun) :
         /\ users = QueryWorld(seed, n).users
         /\ employeeCounter = QueryWorld(seed, n).employeeCounter
         /\ attendance = QueryWorld(seed, n).attendance
         /\ today \in RunDay(n)..MaxDay
    /\ response = NoResponse
    /\ steps = 0
    /\ inflight = [ p \in Slots |-> IdleRequest ]
    /\ calc = NoCalc
    /\ query = NoQuery

NextQuery ==
    \/ \E userId \in QueryUserIds, startDate, endDate \in QueryDays :
         History(userId, startDate, endDate)
    \/ \E userId \in QueryUserIds, month \in QueryMonths, utcOffset \in UtcOffsets :
         MonthlySummary(userId, month, utcOffset)
    \/ \E date \in QueryDays : AllForDate(date)
    \/ \E startDate, endDate \in QueryDays, employee \in QueryEmployees :
         Report(startDate, endDate, employee)
    \/ \E missing \in (SUBSET {"startDate", "endDate"}) \ {{}} :
         ReportMissingDate(missing)
    \/ \E month \in QueryMonths, utcOffset \in UtcOffsets :
         Calendar(month, utcOffset)
    \/ ManagerDashboard
    \/ Employees
    \/ \E userId \in UserIds : Me(userId)
    \/ \E email \in Emails, password \in Passwords : Login(email, password)
    \/ \E data \in RegisterData : Register(data)

SpecQuery == InitQuery /\ [][NextQuery]_vars

\* the two joins as functions of the directory and the record store: besides
\* the stores of InitQuery, the same stores with one user taken out of the
\* directory, so that a record's userId has no entry in it (MemStorage itself
\* never removes a user)
WithoutUser(directory, id) == SelectSeq(directory, LAMBDA user : user.id # id)

InitJoin ==
    /\ \E seed \in SeededStores, n \in 0..Len(QueryRun) :
         /\ \E id \in 0..Len(QueryWorld(seed, n).users) :
              users = WithoutUser(QueryWorld(seed, n).users, id)
         /\ employeeCounter = QueryWorld(seed, n).employeeCounter
         /\ attendance = QueryWorld(seed, n).attendance
         /\ today \in RunDay(n)..MaxDay
    /\ response = NoResponse
    /\ steps = 0
    /\ inflight = [ p \in Slots |-> IdleRequest ]
    /\ calc = NoCalc
    /\ query = NoQuery

NextJoin ==
    \/ \E date \in QueryDays : AllForDate(date)
    \/ \E startDate, endDate \in QueryDays, employee \in QueryEmployees :
         Report(startDate, endDate, employee)

SpecJoin == InitJoin /\ [][NextJoin]_vars

\* registrations whose lookups, hashings and creations interleave
InitRegister ==
    /\ users = SeededUsers
    /\ employeeCounter = Len(seedUsers)
    /\ attendance = ConcSeedStore
    /\ today = StartDay
    /\ response = NoResponse
    /\ steps = 0
    /\ inflight = [ p \in Slots |-> IdleRequest ]
    /\ calc = NoCalc
    /\ query = NoQuery

NextRegister ==
    \/ \E p \in Slots, data \in RegisterData : BeginRegister(p, data)
    \/ \E p \in Slots : HashRegister(p)
    \/ \E p \in Slots : FinishRegister(p)

SpecRegister == InitRegister /\ [][NextRegister]_vars

\* the employee dashboard, asked for on the day of the last request of the
\* run or on one of the days that follow, up to the day on which the seed
\* day lies eight days back
InitDashboard ==
    /\ \E seed \in SeededStores, n \in 0..Len(QueryRun) :
         /\ users = QueryWorld(seed, n).users
         /\ employeeCounter = QueryWorld(seed, n).employeeCounter
         /\ attendance = QueryWorld(seed, n).attendance
         /\ today \in RunDay(n)..(StartDay + 8)
    /\ response = NoResponse
    /\ steps = 0
    /\ inflight = [ p \in Slots |-> IdleRequest ]
    /\ calc = NoCalc
    /\ query = NoQuery

NextDashboard ==
    \E userId \in UserIds, utcOffset \in UtcOffsets :
        EmployeeDashboard(userId, utcOffset)

SpecDashboard == InitDashboard /\ [][NextDashboard]_vars

-----------------------------------------------------------------------------
(* Properties *)

Records == 1..Len(attendance)

\* the record was written by a handler, not by seedData
Created(i) == i > Len(SeedSlots)

HasCheckIn(store, userId, date) ==
    \E i \in 1..Len(store) :
        /\ store[i].userId = userId
        /\ store[i].date = date
        /\ store[i].checkInTime # NoTime

HasCheckOut(store, userId, date) ==
    \E i \in 1..Len(store) :
        /\ store[i].userId = userId
        /\ store[i].date = date
        /\ store[i].checkOutTime # NoTime

\* this step is the handling of one request of kind op; response' is its response
Handled(op) ==
    /\ steps' = steps + 1
    /\ today' = today
    /\ response'.op = op

\* minutes since midnight of a time of day, seconds dropped
MinuteOfDay(t) == t[1] * 60 + t[2]

\* C1: in every state reached from the seeded store by check-in and check-out
\* requests handled one after the other, by any users on any days, no two
\* records of the store share (userId, date).
C1_OneRecordPerUserDay ==
    \A i, j \in Records :
        (attendance[i].userId = attendance[j].userId
            /\ attendance[i].date = attendance[j].date) => i = j

\* C1 witness: a check-in has created a record and a repeated check-in was refused
C1_Witness ==
    /\ \E i \in Records : Created(i)
    /\ response.op = "checkin"
    /\ response.code = 400

\* C2: of two check-in requests for the same user and day whose lookups and
\* writes interleave, at most one succeeds, and the store never holds two
\* records for one (userId, date).
C2_ConcurrentCheckInsExclusive ==
    /\ \A p, q \in Slots :
         (/\ p # q
          /\ inflight[p].pc = "done-checkin"
          /\ inflight[q].pc = "done-checkin"
          /\ inflight[p].userId = inflight[q].userId
          /\ inflight[p].date = inflight[q].date)
         => ~(inflight[p].code \in {200, 201} /\ inflight[q].code \in {200, 201})
    /\ \A i, j \in Records :
         (attendance[i].userId = attendance[j].userId
             /\ attendance[i].date = attendance[j].date) => i = j

\* C3: of two check-out requests for the same user and day whose lookups and
\* writes interleave, at most one succeeds, and the check-out time written by
\* a successful check-out stays the stored one.
C3_ConcurrentCheckOutsExclusive ==
    /\ \A p, q \in Slots :
         (/\ p # q
          /\ inflight[p].pc = "done-checkout"
          /\ inflight[q].pc = "done-checkout"
          /\ inflight[p].userId = inflight[q].userId
          /\ inflight[p].date = inflight[q].date)
         => ~(inflight[p].code = 200 /\ inflight[q].code = 200)
    /\ \A p \in Slots :
         (inflight[p].pc = "done-checkout" /\ inflight[p].code = 200)
         => \A i \in Records :
              (attendance[i].userId = inflight[p].userId
                  /\ attendance[i].date = inflight[p].date)
              => attendance[i].checkOutTime = inflight[p].time

C5_CheckoutStatus ==
    [][ \A i \in Records :
          (attendance[i].checkOutTime = NoTime /\ attendance'[i].checkOutTime # NoTime)
          => /\ attendance'[i].status =
                    IF attendance'[i].totalHours[1] < 400
                        THEN "half-day" ELSE attendance[i].status
             /\ (attendance[i].checkInTime = Time(9, 15, 0)
                    /\ attendance'[i].checkOutTime = Time(17, 0, 0))
                => (attendance'[i].status = "present"
                       /\ attendance'[i].totalHours = <<775>>)
             /\ (attendance[i].checkInTime = Time(11, 0, 0)
                    /\ attendance'[i].checkOutTime = Time(12, 30, 0))
                => (attendance[i].status = "late"
                       /\ attendance'[i].status = "half-day"
                       /\ attendance'[i].totalHours = <<150>>) ]_vars

\* C5 witness: a late check-in at 11:00 was checked out at 12:30 as half-day,
\* or a present check-in at 09:15 was checked out after exactly four hours
C5_Witness ==
    \E i \in Records :
        /\ Created(i)
        /\ \/ /\ attendance[i].checkInTime = Time(11, 0, 0)
              /\ attendance[i].checkOutTime = Time(12, 30, 0)
              /\ attendance[i].status = "half-day"
           \/ /\ attendance[i].checkInTime = Time(9, 15, 0)
              /\ attendance[i].checkOutTime = Time(13, 15, 0)
              /\ attendance[i].status = "present"

\* C6 as claimed: the hours computed at check-out are the minutes between
\* check-in and check-out divided by 60 and cut off after two decimals.
C6_TruncatedHours ==
    calc.op = "hours" =>
        calc.totalHours[1] =
            ((MinuteOfDay(calc.checkOutTime) - MinuteOfDay(calc.checkInTime)) * 100)
                \div 60

\* C6 as amended: the hours computed at check-out are the minutes between
\* check-in and check-out divided by 60 and rounded to the nearest hundredth
\* (at most 0.005 away from the exact quotient); 09:00:00 to 17:30:00 gives 8.50.
C6_RoundedHours ==
    calc.op = "hours" =>
        LET n == calc.totalHours[1]
            d == MinuteOfDay(calc.checkOutTime) - MinuteOfDay(calc.checkInTime)
        IN  /\ 6 * n - 10 * d <= 3
            /\ 10 * d - 6 * n <= 3
            /\ (calc.checkInTime = Time(9, 0, 0) /\ calc.checkOutTime = Time(17, 30, 0))
               => n = 850

\* C6 witness: one minute of work is written as 0.02 hours
C6_Witness ==
    /\ calc.op = "hours"
    /\ calc.checkInTime = Time(9, 0, 0)
    /\ calc.checkOutTime = Time(9, 1, 0)
    /\ calc.totalHours = <<2>>

\* C7: a check-in request of a user whose record of today has a check-in time
\* is answered 400 "Already checked in today" and leaves the store unchanged.
C7_AlreadyCheckedIn ==
    [][ (Handled("checkin") /\ HasCheckIn(attendance, response'.userId, today))
        => /\ response'.code = 400
           /\ response'.message = "Already checked in today"
           /\ attendance' = attendance ]_vars

\* C7 witness: a user who checked in through the handler was refused a second check-in
C7_Witness ==
    /\ response.op = "checkin"
    /\ response.code = 400
    /\ \E i \in Records :
         /\ Created(i)
         /\ attendance[i].userId = response.userId
         /\ attendance[i].date = today
         /\ attendance[i].checkInTime # NoTime

\* C8: a check-out request of a user with no record today, or with a record
\* without check-in time, is answered 400 "You haven't checked in today" and
\* leaves the store unchanged.
C8_NotCheckedIn ==
    [][ (Handled("checkout") /\ ~HasCheckIn(attendance, response'.userId, today))
        => /\ response'.code = 400
           /\ response'.message = "You haven't checked in today"
           /\ attendance' = attendance ]_vars

\* C8 witness: a check-out was refused for a user whose record of today is a
\* placeholder without check-in time
C8_Witness ==
    /\ response.op = "checkout"
    /\ response.code = 400
    /\ \E i \in Records :
         /\ attendance[i].userId = response.userId
         /\ attendance[i].date = today
         /\ attendance[i].checkInTime = NoTime

\* C9: a check-out request of a user whose record of today has a check-out
\* time is answered 400 "Already checked out today" and leaves the store, and
\* so the record's checkOutTime, totalHours and status, unchanged.
C9_AlreadyCheckedOut ==
    [][ (Handled("checkout") /\ HasCheckOut(attendance, response'.userId, today))
        => /\ response'.code = 400
           /\ response'.message = "Already checked out today"
           /\ attendance' = attendance ]_vars

\* C9 witness: a user who checked in and out through the handlers was refused
\* a second check-out
C9_Witness ==
    /\ response.op = "checkout"
    /\ response.message = "Already checked out today"
    /\ \E i \in Records :
         /\ Created(i)
         /\ attendance[i].userId = response.userId
         /\ attendance[i].date = today
         /\ attendance[i].checkOutTime # NoTime

\* C10: in every state, seed included, a record with a check-out time has a
\* check-in time, and a step that writes a check-out time writes it to a
\* record that had its check-in time before the step.
C10_CheckInBeforeCheckOut ==
    /\ [](\A i \in Records :
            attendance[i].checkOutTime # NoTime => attendance[i].checkInTime # NoTime)
    /\ [][ \A i \in 1..Len(attendance') :
             (/\ attendance'[i].checkOutTime # NoTime
              /\ (i > Len(attendance) \/ attendance[i].checkOutTime = NoTime))
             => (i <= Len(attendance) /\ attendance[i].checkInTime # NoTime) ]_vars

\* C10 witness: a handler has written a check-out time
C10_Witness ==
    \E i \in Records : Created(i) /\ attendance[i].checkOutTime # NoTime

\* C11: under requests handled one after the other, no step removes a record
\* or changes a record's id; a record whose check-out time is set is never
\* changed again; and a record created by a check-in is changed only by the
\* successful check-out of its user, which sets its check-out time (so it is
\* changed at most once).
C11_RecordLifecycle ==
    [][ /\ Len(attendance') >= Len(attendance)
        /\ \A i \in Records :
              /\ attendance'[i].id = attendance[i].id
              /\ attendance[i].checkOutTime # NoTime
                    => attendance'[i] = attendance[i]
              /\ (Created(i) /\ attendance'[i] # attendance[i])
                    => /\ attendance[i].checkOutTime = NoTime
                       /\ attendance'[i].checkOutTime # NoTime
                       /\ Handled("checkout")
                       /\ response'.code = 200
                       /\ response'.userId = attendance[i].userId ]_vars

\* C11 witness: a record created by a check-in was checked out and the next
\* check-in of the same user was refused
C11_Witness ==
    /\ response.op = "checkin"
    /\ response.code = 400
    /\ \E i \in Records :
         /\ Created(i)
         /\ attendance[i].userId = response.userId
         /\ attendance[i].date = today
         /\ attendance[i].checkOutTime # NoTime

\* C12: a check-in answered 201 found no record of (user, today) and appends
\* exactly one record with the check-in time, the status derived from it and
\* no check-out time or hours; a check-in answered 200 found a record without
\* check-in time and changes only checkInTime and status of that record, the
\* record count staying the same; in both cases every other record is
\* untouched.
C12_CheckInEffect ==
    [][ (Handled("checkin") /\ response'.code \in {200, 201}) =>
          LET userId == response'.userId
              existing == getAttendanceByUserAndDate(attendance, userId, today)
          IN  IF existing = NoRecord
                  THEN /\ response'.code = 201
                       /\ Len(attendance') = Len(attendance) + 1
                       /\ \A i \in Records : attendance'[i] = attendance[i]
                       /\ LET record == attendance'[Len(attendance')]
                          IN  /\ record.userId = userId
                              /\ record.date = today
                              /\ record.checkInTime \in Times
                              /\ record.status = calculateStatus(record.checkInTime)
                              /\ record.checkOutTime = NoTime
                              /\ record.totalHours = NoHours
                  ELSE /\ response'.code = 200
                       /\ existing[1].checkInTime = NoTime
                       /\ Len(attendance') = Len(attendance)
                       /\ \A i \in Records :
                             IF attendance[i].id = existing[1].id
                                 THEN /\ attendance'[i].checkInTime \in Times
                                      /\ attendance'[i] =
                                           Merge(attendance[i],
                                             [ checkInTime |-> attendance'[i].checkInTime,
                                               status |-> calculateStatus(
                                                   attendance'[i].checkInTime) ])
                                 ELSE attendance'[i] = attendance[i] ]_vars

\* C12 witness: one check-in has created a record and the last one has filled
\* in a seeded placeholder
C12_Witness ==
    /\ response.op = "checkin"
    /\ response.code = 200
    /\ \E i \in Records : Created(i) /\ attendance[i].checkOutTime = NoTime
    /\ \E i \in Records :
         /\ ~Created(i)
         /\ attendance[i].userId = response.userId
         /\ attendance[i].date = today
         /\ attendance[i].checkInTime \in Times
         /\ attendance[i].checkOutTime = NoTime

\* the stored records that a query for (userId, startDate..endDate) must return
Matching(userId, startDate, endDate) ==
    { i \in Records :
        /\ attendance[i].userId = userId
        /\ attendance[i].date >= startDate
        /\ attendance[i].date <= endDate }

\* the sequence holds each stored record with an index in wanted exactly once
\* and nothing else
HoldsExactly(result, wanted) ==
    /\ Len(result) = Cardinality(wanted)
    /\ \A i \in wanted : \E k \in 1..Len(result) : result[k] = attendance[i]

\* C13: getUserAttendanceHistory(userId, startDate, endDate) returns exactly
\* the stored records of that user whose date lies in startDate..endDate, both
\* ends included, each once, and the dates of the returned sequence strictly
\* decrease.
C13_HistoryExactAndDescending ==
    query.op = "history" =>
        /\ HoldsExactly(query.result,
                        Matching(query.userId, query.startDate, query.endDate))
        /\ \A k \in 1..(Len(query.result) - 1) :
             query.result[k].date > query.result[k + 1].date

\* C13 witness: a history whose newest record lies on the end date and whose
\* oldest lies on the start date, older in the store than the newest
C13_Witness ==
    /\ query.op = "history"
    /\ Len(query.result) = 2
    /\ query.result[1].date = query.endDate
    /\ query.result[2].date = query.startDate
    /\ query.result[2].id < query.result[1].id

\* the stored record with its joined user left out again
Stored(entry) == [ f \in DOMAIN entry \ {"user"} |-> entry[f] ]

\* the stored records that a report for (startDate..endDate, employee) must hold
ReportMatching(startDate, endDate, employee) ==
    { i \in Records :
        /\ attendance[i].date >= startDate
        /\ attendance[i].date <= endDate
        /\ employee.kind = "id" => attendance[i].userId = employee.id }

\* how many entries of the sequence have the status
WithStatus(result, status) ==
    Cardinality({ k \in 1..Len(result) : result[k].status = status })

\* C14: the report for (startDate, endDate, employee) holds exactly the stored
\* records with startDate <= date <= endDate, only those of the employee when
\* an employee other than "all" is given, each once, with dates that never
\* increase along the sequence; its summary counts the returned records and
\* the returned records of each status.
C14_ReportExactSortedSummed ==
    query.op = "report" =>
        LET wanted == ReportMatching(query.startDate, query.endDate, query.employee)
        IN  /\ Len(query.result) = Cardinality(wanted)
            /\ \A i \in wanted : \E k \in 1..Len(query.result) :
                 Stored(query.result[k]) = attendance[i]
            /\ \A k \in 1..(Len(query.result) - 1) :
                 query.result[k].date >= query.result[k + 1].date
            /\ query.summary.totalRecords = Len(query.result)
            /\ query.summary.presentCount = WithStatus(query.result, "present")
            /\ query.summary.absentCount = WithStatus(query.result, "absent")
            /\ query.summary.lateCount = WithStatus(query.result, "late")
            /\ query.summary.halfDayCount = WithStatus(query.result, "half-day")

\* C14 witness: a report for one employee over two days, newest record first,
\* while the range also holds records of other users
C14_Witness ==
    /\ query.op = "report"
    /\ query.employee.kind = "id"
    /\ Len(query.result) = 2
    /\ query.result[1].date > query.result[2].date
    /\ Cardinality(ReportMatching(query.startDate, query.endDate, AllEmployees)) > 2

\* the joined user of a record: the directory's entry for its userId without
\* the password, or nothing when the directory has no such entry
JoinedUser(userId) ==
    IF \E i \in 1..Len(users) : users[i].id = userId
        THEN << removePassword(
                  users[CHOOSE i \in 1..Len(users) : users[i].id = userId]) >>
        ELSE NoUser

\* the stored records that the last join had to return
JoinMatching ==
    IF query.op = "date"
        THEN { i \in Records : attendance[i].date = query.date }
        ELSE ReportMatching(query.startDate, query.endDate, query.employee)

\* C15: the output of getAllAttendanceForDate and of getAttendanceReport has
\* one entry for every matching stored record and no other entry, whether or
\* not the record's userId is in the directory; the entry carries the
\* directory's user, and no user when the directory has none for that userId.
C15_JoinKeepsEveryRecord ==
    query.op \in {"date", "report"} =>
        /\ Len(query.result) = Cardinality(JoinMatching)
        /\ \A i \in JoinMatching : \E k \in 1..Len(query.result) :
             /\ Stored(query.result[k]) = attendance[i]
             /\ query.result[k].user = JoinedUser(attendance[i].userId)

\* C15 witness: a join has returned a record whose user is not in the
\* directory, without a user, next to a record with its user
C15_Witness ==
    /\ query.op \in {"date", "report"}
    /\ \E k \in 1..Len(query.result) :
         /\ query.result[k].user = NoUser
         /\ \A i \in 1..Len(users) : users[i].id # query.result[k].userId
    /\ \E k \in 1..Len(query.result) : query.result[k].user # NoUser

\* the user objects that the last query or response handed out
UsersHandedOut ==
    CASE query.op = "employees" ->
           { query.result[k] : k \in 1..Len(query.result) }
      [] query.op \in {"date", "report"} ->
           { query.result[k].user[1] :
               k \in { j \in 1..Len(query.result) : query.result[j].user # NoUser } }
      [] query.op = "calendar" ->
           UNION { { query.result[d].records[k].user[1] :
                       k \in { j \in 1..Len(query.result[d].records) :
                                 query.result[d].records[j].user # NoUser } } :
                   d \in 1..Len(query.result) }
      [] query.op = "dashboard" ->
           { query.result.absentEmployees[k] :
               k \in 1..Len(query.result.absentEmployees) }
      [] query.op \in {"register", "login", "me"} ->
           IF query.user = NoUser THEN {} ELSE { query.user[1] }
      [] OTHER -> {}

\* C16: every user object handed out by getAllEmployees, by the joins of
\* getAllAttendanceForDate, getAttendanceReport and getCalendarData, in the
\* manager dashboard's absentEmployees and in the register, login and me
\* responses has no password field and has every other field of the stored
\* user with the stored value.
C16_NoPasswordLeavesTheStore ==
    \A user \in UsersHandedOut :
        /\ "password" \notin DOMAIN user
        /\ \E i \in 1..Len(users) :
             /\ users[i].id = user.id
             /\ DOMAIN user = DOMAIN users[i] \ {"password"}
             /\ \A f \in DOMAIN user : user[f] = users[i][f]

\* C16 witness: a user whose stored password is a bcrypt hash has logged in
\* and the response carries the user
C16_Witness ==
    /\ query.op = "login"
    /\ query.code = 200
    /\ query.user # NoUser
    /\ \E i \in 1..Len(users) :
         /\ users[i].id = query.sessionUserId
         /\ IsBcryptHash(users[i].password)

\* the calendar days of a month
DaysOfMonth(month) ==
    FirstDayOf(month)..(FirstDayOf(month) + MonthLength(month) - 1)

\* the stored records of a user in a month with the status
UserMonthRecords(userId, month, status) ==
    { i \in Records :
        /\ attendance[i].userId = userId
        /\ attendance[i].date \in DaysOfMonth(month)
        /\ attendance[i].status = status }

\* C17: the monthly summary of a user for a month has presentDays, absentDays,
\* lateDays and halfDays equal to the number of that user's stored records in
\* that month with the matching status (a day without record adds nothing to
\* absentDays), and when the user has no record in the month every field,
\* totalHours included, is 0.
C17_MonthlySummaryCounts ==
    query.op = "summary" =>
        /\ query.result.presentDays =
             Cardinality(UserMonthRecords(query.userId, query.month, "present"))
        /\ query.result.absentDays =
             Cardinality(UserMonthRecords(query.userId, query.month, "absent"))
        /\ query.result.lateDays =
             Cardinality(UserMonthRecords(query.userId, query.month, "late"))
        /\ query.result.halfDays =
             Cardinality(UserMonthRecords(query.userId, query.month, "half-day"))
        /\ (\A i \in Records :
              attendance[i].userId = query.userId
                  => attendance[i].date \notin DaysOfMonth(query.month))
             => query.result.totalHours = 0

\* the stored records of a date
RecordsOn(date) == { i \in Records : attendance[i].date = date }

\* C18: the calendar grid of a month has one entry for each calendar day of
\* that month, in ascending date order, whatever the store holds; the total of
\* every day is the number of records stored for that date, and a day without
\* records has present = absent = late = halfDay = total = 0 and no records.
C18_CalendarGrid ==
    query.op = "calendar" =>
        /\ Len(query.result) = MonthLength(query.month)
        /\ \A k \in 1..Len(query.result) :
             LET entry == query.result[k]
             IN  /\ entry.date = FirstDayOf(query.month) + k - 1
                 /\ entry.total = Cardinality(RecordsOn(entry.date))
                 /\ RecordsOn(entry.date) = {} =>
                      /\ entry.present = 0
                      /\ entry.absent = 0
                      /\ entry.late = 0
                      /\ entry.halfDay = 0
                      /\ entry.records = <<>>

\* the stored records of a date with the status
RecordsOnWith(date, status) ==
    { i \in RecordsOn(date) : attendance[i].status = status }

\* the users of the directory with role employee
EmployeeIndexes == { i \in 1..Len(users) : users[i].role = "employee" }

\* C19: the weekly trend has 7 entries, for the 7 consecutive days that end
\* today, oldest first; present and late of a day are the numbers of records
\* of that day with status present and late, and absent is the number of
\* records with status absent plus (number of employees - number of records
\* of that day).
C19_WeeklyTrend ==
    query.op = "dashboard" =>
        LET trend == query.result.weeklyTrend
        IN  /\ Len(trend) = 7
            /\ \A k \in 1..Len(trend) :
                 /\ trend[k].date = today - 7 + k
                 /\ trend[k].present =
                      Cardinality(RecordsOnWith(trend[k].date, "present"))
                 /\ trend[k].late =
                      Cardinality(RecordsOnWith(trend[k].date, "late"))
                 /\ trend[k].absent =
                      Cardinality(RecordsOnWith(trend[k].date, "absent"))
                        + (Cardinality(EmployeeIndexes)
                             - Cardinality(RecordsOn(trend[k].date)))

\* C19 witness: a trend with a day without records, on which every employee
\* counts as absent, and a day with a late record and an absent record
C19_Witness ==
    /\ query.op = "dashboard"
    /\ \E k \in 1..7 :
         /\ RecordsOn(query.result.weeklyTrend[k].date) = {}
         /\ query.result.weeklyTrend[k].absent = Cardinality(EmployeeIndexes)
    /\ \E k \in 1..7 :
         /\ query.result.weeklyTrend[k].late > 0
         /\ RecordsOnWith(query.result.weeklyTrend[k].date, "absent") # {}

\* the employees of a department
EmployeesOf(department) ==
    { i \in EmployeeIndexes : users[i].department = department }

\* the records of today of a user
TodayRecordsOf(userId) ==
    { i \in RecordsOn(today) : attendance[i].userId = userId }

\* C20: the department breakdown has one entry for every department that has
\* an employee; its present is the number of employees of the department with
\* a record today whose status is not absent, and its absent is the number of
\* employees of the department with an absent record today plus the number
\* without record today, so that every employee is counted once.
C20_DepartmentBreakdown ==
    query.op = "dashboard" =>
        LET stats == query.result.departmentStats
        IN  /\ \A i \in EmployeeIndexes :
                 Cardinality({ k \in 1..Len(stats) :
                     stats[k].department = users[i].department }) = 1
            /\ \A k \in 1..Len(stats) :
                 /\ EmployeesOf(stats[k].department) # {}
                 /\ stats[k].present =
                      Cardinality({ i \in EmployeesOf(stats[k].department) :
                          \E r \in TodayRecordsOf(users[i].id) :
                              attendance[r].status # "absent" })
                 /\ stats[k].absent =
                      Cardinality({ i \in EmployeesOf(stats[k].department) :
                          \E r \in TodayRecordsOf(users[i].id) :
                              attendance[r].status = "absent" })
                      + Cardinality({ i \in EmployeesOf(stats[k].department) :
                          TodayRecordsOf(users[i].id) = {} })
                 /\ stats[k].present + stats[k].absent =
                      Cardinality(EmployeesOf(stats[k].department))

\* C21: the manager dashboard reports totalEmployees = number of users with
\* role employee, presentToday = number of today's records with status
\* present, late or half-day, lateToday = number of today's late records, and
\* absentToday = (number of employees without record today) + (number of
\* today's records with status absent).
C21_ManagerDashboardCounts ==
    query.op = "dashboard" =>
        /\ query.result.totalEmployees = Cardinality(EmployeeIndexes)
        /\ query.result.presentToday =
             Cardinality({ i \in RecordsOn(today) :
                 attendance[i].status \in {"present", "late", "half-day"} })
        /\ query.result.lateToday = Cardinality(RecordsOnWith(today, "late"))
        /\ query.result.absentToday =
             Cardinality({ i \in EmployeeIndexes : TodayRecordsOf(users[i].id) = {} })
               + Cardinality(RecordsOnWith(today, "absent"))

C23_InvertedRangeRejected ==
    (query.op = "report" /\ query.startDate > query.endDate) => query.code # 200

\* C24: no two users share an e-mail and no two users share an employee code,
\* and a registration answered 201 did not find its e-mail in the directory:
\* of the registrations with one e-mail at most one is answered 201, also
\* when their lookups, hashings and creations interleave.
C24_UniqueEmailAndCode ==
    /\ \A i, j \in 1..Len(users) :
         (users[i].email = users[j].email \/ users[i].employeeId = users[j].employeeId)
             => i = j
    /\ \A p, q \in Slots :
         (/\ p # q
          /\ inflight[p].pc = "done-register"
          /\ inflight[q].pc = "done-register"
          /\ inflight[p].data.email = inflight[q].data.email)
         => ~(inflight[p].code = 201 /\ inflight[q].code = 201)

\* C25: a check-out of a record that has a check-in time and no check-out
\* time, at a time of day earlier than the check-in time, is answered 200; it
\* stores the check-out time and a negative totalHours and sets the status to
\* half-day.
C25_NegativeHoursAccepted ==
    [][ \A userId \in UserIds, t \in Times :
          LET existing == getAttendanceByUserAndDate(attendance, userId, today)
              after == getAttendanceByUserAndDate(attendance', userId, today)
          IN  (/\ CheckOut(userId, t)
               /\ existing # NoRecord
               /\ existing[1].checkInTime # NoTime
               /\ existing[1].checkOutTime = NoTime
               /\ MinuteOfDay(t) < MinuteOfDay(existing[1].checkInTime))
              => /\ response'.code = 200
                 /\ after[1].checkOutTime = t
                 /\ after[1].totalHours # NoHours
                 /\ parseFloat(after[1].totalHours) < 0
                 /\ after[1].status = "half-day" ]_vars

\* C25 witness: a record checked in at 12:30 or later has been checked out at
\* an earlier time of day and carries negative hours
C25_Witness ==
    /\ response.op = "checkout"
    /\ response.code = 200
    /\ \E i \in Records :
         /\ attendance[i].userId = response.userId
         /\ attendance[i].date = today
         /\ attendance[i].checkOutTime # NoTime
         /\ MinuteOfDay(attendance[i].checkOutTime)
              < MinuteOfDay(attendance[i].checkInTime)
         /\ parseFloat(attendance[i].totalHours) < 0
         /\ attendance[i].status = "half-day"

\* C26: no step changes the status of a record from late or half-day to
\* present, and a check-out that changes the status of a record changes it to
\* half-day.
C26_NeverUpgradedToPresent ==
    [][ \A i \in Records :
          /\ attendance[i].status \in {"late", "half-day"}
               => attendance'[i].status # "present"
          /\ (Handled("checkout") /\ attendance'[i].status # attendance[i].status)
               => attendance'[i].status = "half-day" ]_vars

\* C26 witness: a record classified late by its check-in has been checked out
\* after four hours or more and is still late
C26_Witness ==
    /\ response.op = "checkout"
    /\ response.code = 200
    /\ \E i \in Records :
         /\ attendance[i].userId = response.userId
         /\ attendance[i].date = today
         /\ attendance[i].status = "late"
         /\ attendance[i].checkOutTime \in Times
         /\ parseFloat(attendance[i].totalHours) >= 400

\* C27: recentAttendance of the employee dashboard holds exactly the user's
\* records of the 7 calendar dates that end today, each once, with strictly
\* decreasing dates.
C27_RecentAttendanceSevenDays ==
    query.op = "employee-dashboard" =>
        /\ HoldsExactly(query.result.recentAttendance,
                        Matching(query.userId, today - 6, today))
        /\ \A k \in 1..(Len(query.result.recentAttendance) - 1) :
             query.result.recentAttendance[k].date
               > query.result.recentAttendance[k + 1].date

\* C28: whatever users of either role have registered, checked in and checked
\* out, the manager dashboard has presentToday + absentToday = totalEmployees
\* and absentToday >= 0, and no absent figure of its weekly trend is negative.
C28_DashboardTotalsConsistent ==
    query.op = "dashboard" =>
        /\ query.result.presentToday + query.result.absentToday
             = query.result.totalEmployees
        /\ query.result.absentToday >= 0
        /\ \A k \in 1..Len(query.result.weeklyTrend) :
             query.result.weeklyTrend[k].absent >= 0

\* C29: in every reachable state, seeded records included, each record with
\* both a check-in and a check-out time has the derived status (half-day when
\* its totalHours are below 4, otherwise the status its check-in time
\* classifies to), and every stored status is one of present, absent, late
\* and half-day.
C29_StoredStatusIsDerived ==
    \A i \in 1..Len(attendance) :
        /\ attendance[i].status \in {"present", "absent", "late", "half-day"}
        /\ (attendance[i].checkInTime # NoTime
              /\ attendance[i].checkOutTime # NoTime) =>
               attendance[i].status =
                   IF parseFloat(attendance[i].totalHours) < 400
                       THEN "half-day"
                       ELSE calculateStatus(attendance[i].checkInTime)

\* the records of the store after the step that the step created or changed
Touched ==
    { i \in 1..Len(attendance') :
        i > Len(attendance) \/ attendance'[i] # attendance[i] }

\* C30: a check-in or check-out request by user U on day D leaves the user
\* directory and every record other than the one keyed (U, D) unchanged; it
\* never changes the id, userId, date or createdAt of the record it touches; a
\* check-in leaves that record's checkOutTime and totalHours unchanged and a
\* check-out leaves its checkInTime unchanged.
C30_OnlyOwnRecordTouched ==
    [][ (Handled("checkin") \/ Handled("checkout")) =>
          /\ users' = users
          /\ employeeCounter' = employeeCounter
          /\ Len(attendance') >= Len(attendance)
          /\ Cardinality(Touched) <= 1
          /\ \A i \in Touched :
               /\ attendance'[i].userId = response'.userId
               /\ attendance'[i].date = today
               /\ i <= Len(attendance) =>
                    /\ attendance'[i].id = attendance[i].id
                    /\ attendance'[i].userId = attendance[i].userId
                    /\ attendance'[i].date = attendance[i].date
                    /\ attendance'[i].createdAt = attendance[i].createdAt
                    /\ Handled("checkin") =>
                         /\ attendance'[i].checkOutTime = attendance[i].checkOutTime
                         /\ attendance'[i].totalHours = attendance[i].totalHours
                    /\ Handled("checkout") =>
                         attendance'[i].checkInTime = attendance[i].checkInTime ]_vars

\* C30 witness: a check-out has been accepted for a user who holds a record of
\* an earlier day as well, while the store holds a record of another user
C30_Witness ==
    /\ response.op = "checkout"
    /\ response.code = 200
    /\ \E i, j, k \in Records :
         /\ attendance[i].userId = response.userId
         /\ attendance[i].date = today
         /\ attendance[i].checkOutTime # NoTime
         /\ attendance[j].userId = response.userId
         /\ attendance[j].date < today
         /\ attendance[k].userId # response.userId

====
